---------------------------- MODULE Spec2Model ----------------------------
(***************************************************************************)
(* mutpy: the coverage engine of src/mutpy/coverage.py (node annotator,    *)
(* coverage instrumenter, coverage injector session, per-test listener)    *)
(* and the source generator of src/mutpy/codegen.py.                       *)
(***************************************************************************)
EXTENDS Integers, Sequences, FiniteSets, TLC

VARIABLES
    tree,            \* the syntax tree the driver holds: its program, the `marker` attribute and the statement lists of each node
    module,          \* the instrumented module built by the latest inject: program, marker values and the node objects it is made of
    covered_nodes,   \* CoverageInjector.covered_nodes
    last_marker,     \* CoverageInjector.marker_transformer.last_marker
    listener,        \* the CoverageTestResult in use
    declared,        \* function definitions of the loaded module whose def statement has run
    ran,             \* history: statements reached and definition bodies entered since the latest inject
    loadTracked,     \* history: markers recorded by tracking statements while the latest inject loaded the module
    sessionCov,      \* history: markers recorded since the latest inject started
    added,           \* history: markers added to covered_nodes during the running (or just stopped) test
    hist,            \* history: flags about the run so far
    lastOp           \* history: the operation that produced this state

covVars == <<tree, module, covered_nodes, last_marker, listener, declared, ran,
             loadTracked, sessionCov, added, hist, lastOp>>

VARIABLES
    gtree,           \* the syntax tree handed to to_source
    generator,       \* the SourceGenerator: result, indentation, new_line
    source,          \* the text to_source returned, as the list of the strings it joined
    parsed,          \* the tree the parser built from source
    genOp            \* history: the operation that produced this state

genVars == <<gtree, generator, source, parsed, genOp>>
vars == <<covVars, genVars>>

-----------------------------------------------------------------------------
(* Bounds *)
MaxInjects == 2       \* inject calls in one run
MaxIter == 1          \* iterations of a loop body in one execution
MaxLine == 4          \* line numbers carried by the statements handed to the source generator

NoMarker == -1        \* a node without the `marker` attribute

Tests == {"t1"}

-----------------------------------------------------------------------------
(* Syntax trees.  A tree gives, per node, its kind and its child nodes in   *)
(* the order of the node's fields: expression children (test, target,     *)
(* iter, value, args), then body, then orelse.  Node 1 is the root.         *)

Empty(n) == [i \in 1..n |-> <<>>]
NoAttr(n) == [i \in 1..n |-> ""]

\* def f():
\*     if True:
\*         return 1
\*     return 2
P1 == [kind   |-> <<"Module", "FunctionDef", "arguments", "If", "NameConstant",
                    "Return", "Num", "Return", "Num">>,
       exprs  |-> (2 :> <<3>>) @@ (4 :> <<5>>) @@ (6 :> <<7>>) @@ (8 :> <<9>>) @@ Empty(9),
       body   |-> (1 :> <<2>>) @@ (2 :> <<4, 8>>) @@ (4 :> <<6>>) @@ Empty(9),
       orelse |-> Empty(9),
       attr   |-> NoAttr(9)]

\* if a:
\*     x
\* elif c:
\*     y
\* else:
\*     pass
\* (node numbers are not in traversal order)
P2 == [kind   |-> <<"Module", "Pass", "If", "Name", "Expr", "Name", "If", "Expr", "Name", "Name">>,
       exprs  |-> (3 :> <<10>>) @@ (5 :> <<4>>) @@ (7 :> <<6>>) @@ (8 :> <<9>>) @@ Empty(10),
       body   |-> (1 :> <<3>>) @@ (3 :> <<5>>) @@ (7 :> <<8>>) @@ Empty(10),
       orelse |-> (3 :> <<7>>) @@ (7 :> <<2>>) @@ Empty(10),
       attr   |-> NoAttr(10)]

\* """doc"""
\* for i in xs:
\*     y
\* else:
\*     def g():
\*         pass
P3 == [kind   |-> <<"Module", "Expr", "Str", "For", "Name", "Name", "Expr", "Name",
                    "FunctionDef", "arguments", "Pass">>,
       exprs  |-> (2 :> <<3>>) @@ (4 :> <<5, 6>>) @@ (7 :> <<8>>) @@ (9 :> <<10>>) @@ Empty(11),
       body   |-> (1 :> <<2, 4>>) @@ (4 :> <<7>>) @@ (9 :> <<11>>) @@ Empty(11),
       orelse |-> (4 :> <<9>>) @@ Empty(11),
       attr   |-> NoAttr(11)]

\* from __future__ import division
\* class C:
\*     while c:
\*         x = 1
\*     import m
P4 == [kind   |-> <<"Module", "ImportFrom", "ClassDef", "While", "Name", "Assign",
                    "Name", "Num", "Import">>,
       exprs  |-> (4 :> <<5>>) @@ (6 :> <<7, 8>>) @@ Empty(9),
       body   |-> (1 :> <<2, 3>>) @@ (3 :> <<4, 9>>) @@ (4 :> <<6>>) @@ Empty(9),
       orelse |-> Empty(9),
       attr   |-> (2 :> "__future__") @@ NoAttr(9)]

Programs == <<P1, P2, P3, P4>>
Prog == DOMAIN Programs
Nodes(T) == DOMAIN T.kind
Root == 1

\* ast.iter_fields order of the child nodes of n
ChildList(T, n) == T.exprs[n] \o T.body[n] \o T.orelse[n]

Range(s) == {s[i] : i \in DOMAIN s}

RECURSIVE DescOfList(_, _)
\* every node below the nodes of the list cs, the nodes of cs included
DescOfList(T, cs) ==
    IF cs = <<>> THEN {}
    ELSE {Head(cs)} \cup DescOfList(T, ChildList(T, Head(cs))) \cup DescOfList(T, Tail(cs))

\* node.children as set by the tree builder: every descendant of n
children(T, n) == DescOfList(T, ChildList(T, n))

Parent(T, n) == CHOOSE q \in Nodes(T) : n \in Range(ChildList(T, q))

RECURSIVE PreorderList(_, _)
\* the nodes below the list cs in pre-order: each node, then its children in field order
PreorderList(T, cs) ==
    IF cs = <<>> THEN <<>>
    ELSE <<Head(cs)>> \o PreorderList(T, ChildList(T, Head(cs))) \o PreorderList(T, Tail(cs))

Preorder(T) == PreorderList(T, <<Root>>)
PreorderIndex(T, n) == CHOOSE i \in DOMAIN Preorder(T) : Preorder(T)[i] = n

-----------------------------------------------------------------------------
(* Node Annotator: MarkerNodeTransformer *)

\* visit, lines 16-18: a node without a marker takes last_marker, and the counter advances
AssignMarker(st, n) ==
    IF st.mk[n] = NoMarker
    THEN [mk |-> [st.mk EXCEPT ![n] = st.last], last |-> st.last + 1]
    ELSE st

RECURSIVE MarkerVisit(_, _, _), MarkerVisitList(_, _, _)
\* MarkerVisit with a fault: the children are visited before the node takes its marker
MarkerVisitChildrenFirst(T, st, n) == AssignMarker(MarkerVisitList(T, st, ChildList(T, n)), n)

\* visit: mark the node, then generic_visit walks its fields in order
MarkerVisit(T, st, n) == MarkerVisitList(T, AssignMarker(st, n), ChildList(T, n))

MarkerVisitList(T, st, cs) ==
    IF cs = <<>> THEN st
    ELSE MarkerVisitList(T, MarkerVisit(T, st, Head(cs)), Tail(cs))

\* MarkerNodeTransformer() followed by visit(root): the counter starts at 0
Annotate(T, mk) == MarkerVisit(T, [mk |-> mk, last |-> 0], Root)

Unmarked(T) == [n \in Nodes(T) |-> NoMarker]

-----------------------------------------------------------------------------
(* Coverage Classifier + Instrumenter: CoverageNodeTransformerPython33 *)

get_statements_nodes ==
    {"Assert", "Assign", "AugAssign", "Break", "Continue", "Delete", "Expr", "Global",
     "Import", "ImportFrom", "Nonlocal", "Pass", "Raise", "Return"}

get_definitions_nodes == {"ClassDef", "ExceptHandler", "FunctionDef", "Try"}

get_branch_nodes == {"If", "For", "While"}

get_coverable_nodes == get_statements_nodes \cup get_definitions_nodes \cup get_branch_nodes

\* __init__: the visit method registered for a node kind
VisitMethod(kind) ==
    IF kind \in get_coverable_nodes
    THEN IF kind \in get_definitions_nodes THEN "inject_inside_visit" ELSE "inject_before_visit"
    ELSE "generic_visit"

is_future_statement(T, n) == T.kind[n] = "ImportFrom" /\ T.attr[n] = "__future__"

\* utils.is_docstring(node.value): the value is the string literal that opens the body of
\* the enclosing function, class or module
is_docstring(T, n) ==
    /\ T.exprs[n] # <<>>
    /\ T.kind[T.exprs[n][1]] = "Str"
    /\ LET d == Parent(T, n)
       IN  /\ T.kind[d] \in {"FunctionDef", "ClassDef", "Module"}
           /\ T.body[d] # <<>>
           /\ T.body[d][1] = n

Track(S) == [t |-> "track", m |-> S]
Stmt(n) == [t |-> "stmt", n |-> n]

RECURSIVE VisitStmts(_, _, _), NewBody(_, _, _), generate_coverage_node(_, _, _)

RECURSIVE BodyMarkers(_, _, _)
\* lines 65-68: the markers taken out for the elements of a branch's (already
\* visited) body; an injected tracking statement has no marker and is passed over
BodyMarkers(T, mk, items) ==
    IF items = <<>> THEN {}
    ELSE LET body_el == Head(items)
         IN  (IF body_el.t = "stmt"
              THEN {mk[body_el.n]} \cup {mk[c] : c \in children(T, body_el.n)}
              ELSE {})
             \cup BodyMarkers(T, mk, Tail(items))

\* the markers the tracking statement generated for node n records
generate_coverage_node(T, mk, n) ==
    IF T.kind[n] \in get_definitions_nodes
    THEN {mk[n]}
    ELSE LET markers == {mk[n]} \cup {mk[c] : c \in children(T, n)}
         IN  IF T.kind[n] \in get_branch_nodes
             THEN markers \ BodyMarkers(T, mk, NewBody(T, mk, n))
             ELSE markers

\* what the visit of statement n returns into the enclosing statement list
inject_before_visit(T, mk, n) ==
    IF is_future_statement(T, n) \/ (T.kind[n] = "Expr" /\ is_docstring(T, n))
    THEN <<Stmt(n)>>
    ELSE <<Track(generate_coverage_node(T, mk, n)), Stmt(n)>>

\* the tracking statement inject_inside_visit inserts at body[0] of definition n
inject_inside_visit(T, mk, n) == <<Track(generate_coverage_node(T, mk, n))>>

\* NodeTransformer.generic_visit over a statement list: each statement is replaced
\* by what its visit returns
VisitStmts(T, mk, stmts) ==
    IF stmts = <<>> THEN <<>>
    ELSE LET n == Head(stmts)
         IN  (IF VisitMethod(T.kind[n]) = "inject_before_visit"
              THEN inject_before_visit(T, mk, n)
              ELSE <<Stmt(n)>>)
             \o VisitStmts(T, mk, Tail(stmts))

\* node.body of n in the instrumented tree
NewBody(T, mk, n) ==
    (IF VisitMethod(T.kind[n]) = "inject_inside_visit"
     THEN inject_inside_visit(T, mk, n) ELSE <<>>)
    \o VisitStmts(T, mk, T.body[n])

\* node.orelse of n in the instrumented tree
NewOrelse(T, mk, n) == VisitStmts(T, mk, T.orelse[n])

-----------------------------------------------------------------------------
(* Execution of the instrumented module.  An outcome is one way a statement *)
(* list can run: the markers its tracking statements record, the statements *)
(* reached, the functions defined, and how it ends.                         *)

Outcome(c, r, d, e) == [cov |-> c, ran |-> r, decl |-> d, exit |-> e]
Seqn(o1, o2) == Outcome(o1.cov \cup o2.cov, o1.ran \cup o2.ran, o1.decl \cup o2.decl, o2.exit)
Then(os1, os2) ==
    UNION {IF o1.exit = "normal" THEN {Seqn(o1, o2) : o2 \in os2} ELSE {o1} : o1 \in os1}

RECURSIVE ExecItems(_, _, _), ExecStmt(_, _, _), ExecLoop(_, _, _, _)

ExecItems(T, mk, items) ==
    IF items = <<>> THEN {Outcome({}, {}, {}, "normal")}
    ELSE LET it == Head(items)
             first == IF it.t = "track"
                      THEN {Outcome(it.m, {}, {}, "normal")}
                      ELSE ExecStmt(T, mk, it.n)
         IN  UNION {IF o1.exit = "normal"
                    THEN {Seqn(o1, o2) : o2 \in ExecItems(T, mk, Tail(items))}
                    ELSE {o1} : o1 \in first}

\* a loop whose body may still run k times: it ends (else clause), or runs once more
ExecLoop(T, mk, n, k) ==
    ExecItems(T, mk, NewOrelse(T, mk, n))
    \cup (IF k = 0 THEN {}
          ELSE Then(ExecItems(T, mk, NewBody(T, mk, n)), ExecLoop(T, mk, n, k - 1)))

ExecStmt(T, mk, n) ==
    LET here == {Outcome({}, {n}, {}, "normal")}
    IN  CASE T.kind[n] = "FunctionDef" -> {Outcome({}, {}, {n}, "normal")}
          [] T.kind[n] = "ClassDef" -> Then(here, ExecItems(T, mk, NewBody(T, mk, n)))
          [] T.kind[n] = "If" ->
                Then(here, ExecItems(T, mk, NewBody(T, mk, n))
                           \cup ExecItems(T, mk, NewOrelse(T, mk, n)))
          [] T.kind[n] \in {"For", "While"} -> Then(here, ExecLoop(T, mk, n, MaxIter))
          [] T.kind[n] = "Return" -> {Outcome({}, {n}, {}, "return")}
          [] OTHER -> here

\* utils.create_module: the module body runs once
LoadOutcomes(T, mk) == ExecItems(T, mk, NewBody(T, mk, Root))

\* a call of function f of the loaded module
CallOutcomes(T, mk, f) ==
    {Outcome(o.cov, o.ran \cup {f}, o.decl, "normal") : o \in ExecItems(T, mk, NewBody(T, mk, f))}

-----------------------------------------------------------------------------
(* Source Generator: AbstractSourceGenerator and SourceGeneratorPython33.    *)
(* A tree is a record with its kind and fields; the output is the list of   *)
(* strings written to `result`, which to_source joins.                      *)

NoNode == [kind |-> "None"]
NL == "\n"
indent_with == "    "

Name(id) == [kind |-> "Name", id |-> id]
BinOp(l, op, r) == [kind |-> "BinOp", left |-> l, op |-> op, right |-> r]
Tuple(elts) == [kind |-> "Tuple", elts |-> elts]
YieldFrom(v) == [kind |-> "YieldFrom", value |-> v]
Expr(v) == [kind |-> "Expr", value |-> v]
Assign(ts, v) == [kind |-> "Assign", targets |-> ts, value |-> v]
alias(n) == [kind |-> "alias", name |-> n, asname |-> "None"]
Import(ns) == [kind |-> "Import", names |-> ns]
Pass == [kind |-> "Pass"]
If(t, b, oe) == [kind |-> "If", test |-> t, body |-> b, orelse |-> oe]
ExceptHandler(b) == [kind |-> "ExceptHandler", type |-> NoNode, name |-> "None", body |-> b]
Try(b, hs, oe, fb) == [kind |-> "Try", body |-> b, handlers |-> hs, orelse |-> oe, finalbody |-> fb]
Module(b) == [kind |-> "Module", body |-> b]

BINOP_SYMBOLS == [Add |-> "+", Mult |-> "*"]

\* ' %s ' % symbol
Spaced(symbol) == " " \o symbol \o " "

\* the node kinds AbstractSourceGenerator / SourceGeneratorPython33 define a visit_ method for
\* (those the trees of this model use)
Renderers == {"Assign", "Import", "Expr", "Pass", "Name", "BinOp", "alias",
              "ExceptHandler", "Try", "If"}

\* the child nodes of a node in the order of ast.iter_fields
Fields(node) ==
    CASE node.kind = "Module" -> node.body
      [] node.kind = "Expr" -> <<node.value>>
      [] node.kind = "YieldFrom" -> <<node.value>>
      [] node.kind = "Assign" -> node.targets \o <<node.value>>
      [] node.kind = "Import" -> node.names
      [] node.kind = "BinOp" -> <<node.left, node.right>>
      [] node.kind = "Tuple" -> node.elts
      [] node.kind = "ExceptHandler" -> node.body
      [] node.kind = "If" -> <<node.test>> \o node.body \o node.orelse
      [] node.kind = "Try" -> node.body \o node.handlers \o node.orelse \o node.finalbody
      [] OTHER -> <<>>

\* __init__ (lines 102-106)
NewGenerator == [result |-> <<>>, indentation |-> 0, new_line |-> FALSE, error |-> FALSE]

RECURSIVE Times(_, _)
\* s * n for a list of strings s: empty when n <= 0
Times(s, n) == IF n <= 0 THEN <<>> ELSE s \o Times(s, n - 1)

\* indent_with * indentation, as one appended string ("" at depth 0)
Indent(g) == IF g.indentation = 0 THEN <<"">> ELSE Times(<<indent_with>>, g.indentation)

\* len("".join(self.result).split('\n'))
LineCount(result) == Cardinality({i \in DOMAIN result : result[i] = NL}) + 1

correct_line_number(g, node) ==
    LET g1 == IF g.new_line
              THEN [g EXCEPT !.result = (IF g.result # <<>> THEN @ \o <<NL>> ELSE @) \o Indent(g),
                             !.new_line = FALSE]
              ELSE g
    IN  IF node.kind # "None" /\ "lineno" \in DOMAIN node
        THEN LET lines == IF g1.result # <<>> THEN LineCount(g1.result) ELSE 0
                 line_diff == node.lineno - lines
             IN  IF line_diff # 0
                 THEN [g1 EXCEPT !.result =
                          @ \o (IF line_diff > 0 THEN Times(<<NL>> \o Indent(g1), line_diff)
                                ELSE <<"">>)]
                 ELSE g1
        ELSE g1

write(g, x, node) == [correct_line_number(g, node) EXCEPT !.result = Append(@, x)]

newline(g, node) == correct_line_number([g EXCEPT !.new_line = TRUE], node)

RECURSIVE visit(_, _), VisitAll(_, _), VisitSeparated(_, _, _, _)

\* ast.NodeVisitor.generic_visit: the child nodes are visited in field order
generic_visit(g, node) == VisitAll(g, Fields(node))

\* visit_missing with a fault: a node kind without a visit_ method aborts the generation
visit_missing_fatal(g, node) == [g EXCEPT !.error = TRUE]

\* ast.NodeVisitor.visit for a kind without a visit_ method: getattr falls back to generic_visit
visit_missing(g, node) == generic_visit(g, node)

VisitAll(g, nodes) ==
    IF nodes = <<>> \/ g.error THEN g ELSE VisitAll(visit(g, Head(nodes)), Tail(nodes))

\* for idx, item in enumerate(nodes): if idx: write(sep); visit(item)
VisitSeparated(g, nodes, sep, idx) ==
    IF nodes = <<>> \/ g.error THEN g
    ELSE VisitSeparated(visit(IF idx > 0 THEN write(g, sep, NoNode) ELSE g, Head(nodes)),
                        Tail(nodes), sep, idx + 1)

body(g, statements) ==
    LET g1 == VisitAll([g EXCEPT !.new_line = TRUE, !.indentation = @ + 1], statements)
    IN  [g1 EXCEPT !.indentation = @ - 1]

visit_Assign(g, node) ==
    LET g1 == VisitSeparated(newline(g, node), node.targets, ", ", 0)
    IN  visit(write(g1, " = ", NoNode), node.value)

RECURSIVE ImportItems(_, _)
\* for item in node.names: write('import '); visit(item)
ImportItems(g, items) ==
    IF items = <<>> THEN g
    ELSE ImportItems(visit(write(g, "import ", NoNode), Head(items)), Tail(items))

visit_Import(g, node) == ImportItems(newline(g, node), node.names)

visit_alias(g, node) ==
    LET g1 == write(g, node.name, NoNode)
    IN  IF node.asname # "None" THEN write(write(g1, " as ", NoNode), node.asname, NoNode) ELSE g1

visit_Expr(g, node) == generic_visit(newline(g, node), node)

RECURSIVE IfChain(_, _)
\* visit_If, lines 259-272: the loop over the else clause; an else clause that is one
\* if statement is written as an elif clause, and the loop goes on with that statement
IfChain(g, node) ==
    IF node.orelse = <<>> THEN g
    ELSE LET else_ == node.orelse
         IN  IF Len(else_) = 1 /\ else_[1].kind = "If"
             THEN LET g1 == write(newline(g, NoNode), "elif ", NoNode)
                      g2 == write(visit(g1, else_[1].test), ":", NoNode)
                  IN  IfChain(body(g2, else_[1].body), else_[1])
             ELSE body(write(newline(g, NoNode), "else:", NoNode), else_)

visit_If(g, node) ==
    LET g1 == write(newline(g, node), "if ", NoNode)
        g2 == write(visit(g1, node.test), ":", NoNode)
    IN  IfChain(body(g2, node.body), node)

visit_Pass(g, node) == write(newline(g, node), "pass", node)

visit_Name(g, node) == write(g, node.id, node)

visit_BinOp(g, node) ==
    LET g1 == visit(g, node.left)
    IN  visit(write(g1, Spaced(BINOP_SYMBOLS[node.op]), NoNode), node.right)

visit_ExceptHandler(g, node) ==
    LET g1 == write(newline(g, node), "except", NoNode)
        g2 == IF node.type.kind # "None"
              THEN LET g3 == visit(write(g1, " ", NoNode), node.type)
                   IN  IF node.name # "None"
                       THEN write(write(g3, " as ", NoNode), node.name, NoNode) ELSE g3
              ELSE g1
    IN  body(write(g2, ":", NoNode), node.body)

\* SourceGeneratorPython33.visit_Try
visit_Try(g, node) ==
    LET g1 == body(write(newline(g, node), "try:", NoNode), node.body)
        g2 == VisitAll(g1, node.handlers)
    IN  IF node.finalbody # <<>>
        THEN body(write(newline(g2, node), "finally:", NoNode), node.finalbody)
        ELSE g2

\* ast.NodeVisitor.visit: the visit_ method of the node's kind, else generic_visit
visit(g, node) ==
    IF g.error THEN g
    ELSE CASE node.kind = "Assign" -> visit_Assign(g, node)
           [] node.kind = "Import" -> visit_Import(g, node)
           [] node.kind = "alias" -> visit_alias(g, node)
           [] node.kind = "Expr" -> visit_Expr(g, node)
           [] node.kind = "Pass" -> visit_Pass(g, node)
           [] node.kind = "If" -> visit_If(g, node)
           [] node.kind = "Name" -> visit_Name(g, node)
           [] node.kind = "BinOp" -> visit_BinOp(g, node)
           [] node.kind = "ExceptHandler" -> visit_ExceptHandler(g, node)
           [] node.kind = "Try" -> visit_Try(g, node)
           [] OTHER -> visit_missing(g, node)

\* to_source: generator = SourceGenerator(indent_with); generator.visit(node)
to_source(node) == visit(NewGenerator, node)

-----------------------------------------------------------------------------
(* The parser that reads the generated text back (ast.parse), for the part  *)
(* of the grammar the trees of this model use.                              *)

SyntaxError == [kind |-> "SyntaxError"]
Identifiers == {"a", "b"}

FirstIndex(toks, sep) ==
    CHOOSE i \in DOMAIN toks : toks[i] = sep /\ \A j \in 1..(i - 1) : toks[j] # sep
LastIndex(toks, sep) ==
    CHOOSE i \in DOMAIN toks : toks[i] = sep /\ \A j \in (i + 1)..Len(toks) : toks[j] # sep

RECURSIVE SplitOn(_, _)
\* the pieces of toks between the occurrences of sep
SplitOn(toks, sep) ==
    IF sep \notin Range(toks) THEN <<toks>>
    ELSE LET i == FirstIndex(toks, sep)
         IN  <<SubSeq(toks, 1, i - 1)>> \o SplitOn(SubSeq(toks, i + 1, Len(toks)), sep)

ParseAtom(c) == IF Len(c) = 1 /\ c[1] \in Identifiers THEN Name(c[1]) ELSE SyntaxError

RECURSIVE ParseProd(_), ParseSum(_)
\* term: factor ('*' factor)*, left associative
ParseProd(c) ==
    IF Spaced("*") \in Range(c)
    THEN LET i == LastIndex(c, Spaced("*"))
         IN  BinOp(ParseProd(SubSeq(c, 1, i - 1)), "Mult", ParseAtom(SubSeq(c, i + 1, Len(c))))
    ELSE ParseAtom(c)

\* arith_expr: term ('+' term)*, left associative
ParseSum(c) ==
    IF Spaced("+") \in Range(c)
    THEN LET i == LastIndex(c, Spaced("+"))
         IN  BinOp(ParseSum(SubSeq(c, 1, i - 1)), "Add", ParseProd(SubSeq(c, i + 1, Len(c))))
    ELSE ParseProd(c)

\* testlist: a comma makes a tuple
ParseTestlist(c) ==
    IF ", " \in Range(c)
    THEN LET segs == SplitOn(c, ", ") IN Tuple([i \in DOMAIN segs |-> ParseSum(segs[i])])
    ELSE ParseSum(c)

\* a simple statement on one line
ParseSimple(c) ==
    IF c = <<"pass">> THEN Pass
    ELSE IF c[1] = "import "
    THEN LET segs == SplitOn(Tail(c), ", ")
         IN  IF \A i \in DOMAIN segs : Len(segs[i]) = 1 /\ segs[i][1] \in Identifiers
             THEN Import([i \in DOMAIN segs |-> alias(segs[i][1])])
             ELSE SyntaxError
    ELSE IF " = " \in Range(c)
    THEN LET segs == SplitOn(c, " = ")
         IN  Assign([i \in 1..(Len(segs) - 1) |-> ParseTestlist(segs[i])],
                    ParseTestlist(segs[Len(segs)]))
    ELSE Expr(ParseTestlist(c))

RECURSIVE LeadingIndents(_)
LeadingIndents(line) ==
    IF line # <<>> /\ Head(line) = indent_with THEN 1 + LeadingIndents(Tail(line)) ELSE 0

\* the non-blank lines of the text, each with its indentation depth and its tokens
Lines(src) ==
    LET toks == SelectSeq(src, LAMBDA x : x # "")
        raw == SplitOn(toks, NL)
        all == [i \in DOMAIN raw |->
                   [level |-> LeadingIndents(raw[i]),
                    content |-> SubSeq(raw[i], LeadingIndents(raw[i]) + 1, Len(raw[i]))]]
    IN  SelectSeq(all, LAMBDA l : l.content # <<>>)

\* one more line read: st is the statement list so far, the clause of the try statement
\* that is open at its end, and whether the text was rejected
ParseLine(st, line) ==
    LET n == Len(st.stmts)
        c == line.content
        last == st.stmts[n]
        reject == [st EXCEPT !.err = TRUE]
    IN  IF st.err THEN st
        ELSE IF line.level = 0 THEN
            IF c = <<"try:">>
            THEN [st EXCEPT !.stmts = Append(@, Try(<<>>, <<>>, <<>>, <<>>)), !.clause = "body"]
            ELSE IF c = <<"except", ":">>
            THEN IF st.clause \in {"body", "handler"}
                 THEN [st EXCEPT !.stmts[n].handlers = Append(@, ExceptHandler(<<>>)),
                                 !.clause = "handler"]
                 ELSE reject
            ELSE IF c = <<"else:">>
            THEN IF st.clause = "handler" THEN [st EXCEPT !.clause = "orelse"] ELSE reject
            ELSE IF c = <<"finally:">>
            THEN IF st.clause \in {"body", "handler", "orelse"}
                 THEN [st EXCEPT !.clause = "finalbody"] ELSE reject
            ELSE [st EXCEPT !.stmts = Append(@, ParseSimple(c)), !.clause = "none"]
        ELSE IF line.level = 1 THEN
            CASE st.clause = "body" -> [st EXCEPT !.stmts[n].body = Append(@, ParseSimple(c))]
              [] st.clause = "handler" ->
                    [st EXCEPT !.stmts[n].handlers[Len(last.handlers)].body =
                                   Append(@, ParseSimple(c))]
              [] st.clause = "orelse" -> [st EXCEPT !.stmts[n].orelse = Append(@, ParseSimple(c))]
              [] st.clause = "finalbody" ->
                    [st EXCEPT !.stmts[n].finalbody = Append(@, ParseSimple(c))]
              [] OTHER -> reject
        ELSE reject

RECURSIVE ParseLines(_, _)
ParseLines(st, lines) ==
    IF lines = <<>> THEN st ELSE ParseLines(ParseLine(st, Head(lines)), Tail(lines))

RECURSIVE HasKind(_, _), AnyHasKind(_, _)
\* a node of the given kind is in the tree, below the root or the root itself
HasKind(node, kind) == node.kind = kind \/ AnyHasKind(Fields(node), kind)
AnyHasKind(nodes, kind) ==
    nodes # <<>> /\ (HasKind(Head(nodes), kind) \/ AnyHasKind(Tail(nodes), kind))

\* ast.parse(text): the module, or a syntax error
ParseModule(src) ==
    LET st == ParseLines([stmts |-> <<>>, clause |-> "none", err |-> FALSE], Lines(src))
    IN  IF st.err \/ HasKind(Module(st.stmts), "SyntaxError") THEN SyntaxError
        ELSE Module(st.stmts)

-----------------------------------------------------------------------------
(* Coverage Injector (session) and the per-test listener *)

NoModule == [p |-> 0, mk |-> <<>>, obj |-> <<>>]

\* node objects, by address: node n of the tree the driver holds is object n, and
\* the copy of node n is a new object, allocated after the objects of the tree
TreeObj(n) == n
CopyObj(T, n) == Cardinality(Nodes(T)) + n

\* deepcopy with a fault: the tree itself is handed to the instrumenter
deepcopy_aliased(T, mk) == [obj |-> [n \in Nodes(T) |-> TreeObj(n)], mk |-> mk]

\* copy.deepcopy(marker_node), line 176: every node is a new object, and it carries
\* the attributes of the node it was copied from, the marker among them
deepcopy(T, mk) == [obj |-> [n \in Nodes(T) |-> CopyObj(T, n)], mk |-> mk]

\* a tracking statement in a statement list: a node that is no node of the tree
TrackingNode == 0

\* the nodes of a statement list of the instrumented tree
NodeList(items) ==
    [i \in DOMAIN items |-> IF items[i].t = "stmt" THEN items[i].n ELSE TrackingNode]

\* CoverageNodeTransformer().visit(copy), line 176: NodeTransformer.generic_visit
\* rewrites the statement lists of every node object of the tree it is given, in
\* place; t is the driver's tree, whose lists change where it shares the object
Instrument(T, copy, t) ==
    [t EXCEPT !.body = [n \in Nodes(T) |->
                           IF copy.obj[n] = TreeObj(n) THEN NodeList(NewBody(T, copy.mk, n))
                           ELSE t.body[n]],
              !.orelse = [n \in Nodes(T) |->
                           IF copy.obj[n] = TreeObj(n) THEN NodeList(NewOrelse(T, copy.mk, n))
                           ELSE t.orelse[n]]]
NoListener == [created |-> FALSE, always_covered_nodes |-> {}, covered_nodes |-> {},
               test_covered_nodes |-> <<>>, running |-> {}]

\* CoverageTestResult.__init__ (lines 194-198)
CoverageTestResult(cov) ==
    [created |-> TRUE, always_covered_nodes |-> cov, covered_nodes |-> {},
     test_covered_nodes |-> <<>>, running |-> {}]

\* InjectCovered with a fault: the set is not cleared
InjectCoveredNoClear(cov, rootMarker, loadCov) == (cov \cup {rootMarker}) \cup loadCov

\* lines 173 and 177, then the load: covered_nodes after inject, from the set before
\* it (cov), the marker of the instrumented root and the markers the load records
InjectCovered(cov, rootMarker, loadCov) == ({} \cup {rootMarker}) \cup loadCov

\* Fingerprint with a fault: the always-covered set is left out
FingerprintTestOnly(cov, always) == cov

\* line 207: the fingerprint stored for the test
Fingerprint(cov, always) == cov \cup always

\* MergeSnapshot with a fault: the pre-test snapshot is not merged back
MergeSnapshotDropped(cov, snapshot) == cov

\* line 208: covered_nodes.update(self.covered_nodes)
MergeSnapshot(cov, snapshot) == cov \cup snapshot

\* CoverageInjector.is_covered, for a node of the instrumented module
is_covered(n) == module.mk[n] \in covered_nodes

\* CoverageInjector.get_result
get_result == <<Cardinality(covered_nodes), last_marker>>

FreshTree(p) ==
    [p |-> p, mk |-> Unmarked(Programs[p]),
     body |-> Programs[p].body, orelse |-> Programs[p].orelse]
AllNodes == UNION {Nodes(Programs[p]) : p \in Prog}
InTest == listener.running # {}

Init ==
    /\ tree \in {FreshTree(p) : p \in Prog}
    /\ module = NoModule
    /\ covered_nodes = {}
    /\ last_marker = NoMarker
    /\ listener = NoListener
    /\ declared = {}
    /\ ran = {}
    /\ loadTracked = {}
    /\ sessionCov = {}
    /\ added = {}
    /\ hist = [injects |-> 0, annots |-> 0, quiet |-> FALSE, fresh |-> FALSE, current |-> FALSE, interrupted |-> FALSE,
               clean |-> TRUE, lastTest |-> "t1"]
    /\ lastOp = "init"
    /\ gtree = NoNode
    /\ generator = NewGenerator
    /\ source = <<>>
    /\ parsed = NoNode
    /\ genOp = "idle"

\* the parser hands the driver a new tree of program p: no node of it has a marker
Parse(p) ==
    /\ ~InTest
    /\ tree # FreshTree(p)
    /\ tree' = FreshTree(p)
    /\ hist' = [hist EXCEPT !.annots = 0]
    /\ added' = {}
    /\ lastOp' = "parse"
    /\ UNCHANGED <<module, covered_nodes, last_marker, listener, declared, ran,
                   loadTracked, sessionCov>>
    /\ UNCHANGED genVars

\* CoverageInjector.inject(tree): clear, annotate, instrument a deep copy, load it
Inject ==
    /\ hist.injects < MaxInjects
    /\ LET T == Programs[tree.p]
           st == Annotate(T, tree.mk)
           copy == deepcopy(T, st.mk)
       IN  \E o \in LoadOutcomes(T, copy.mk) :
             /\ tree' = Instrument(T, copy, [tree EXCEPT !.mk = st.mk])
             /\ last_marker' = st.last
             /\ module' = [p |-> tree.p, mk |-> copy.mk, obj |-> copy.obj]
             /\ covered_nodes' = InjectCovered(covered_nodes, st.mk[Root], o.cov)
             /\ declared' = o.decl
             /\ ran' = o.ran
             /\ loadTracked' = o.cov
             /\ sessionCov' = {st.mk[Root]} \cup o.cov
    /\ added' = {}
    /\ hist' = [hist EXCEPT !.annots = IF @ < 2 THEN @ + 1 ELSE @,
                            !.quiet = TRUE,
                            !.injects = @ + 1,
                            !.fresh = FALSE,
                            !.current = FALSE,
                            !.interrupted = InTest,
                            !.clean = ~InTest]
    /\ lastOp' = "inject"
    /\ UNCHANGED listener
    /\ UNCHANGED genVars

\* code of the loaded module calls its function f
Call(f) ==
    /\ module.p # 0
    /\ f \in declared
    /\ \E o \in CallOutcomes(Programs[module.p], module.mk, f) :
         /\ covered_nodes' = covered_nodes \cup o.cov
         /\ declared' = declared \cup o.decl
         /\ ran' = ran \cup o.ran
         /\ sessionCov' = sessionCov \cup o.cov
         /\ added' = IF InTest THEN added \cup o.cov ELSE {}
    /\ hist' = [hist EXCEPT !.quiet = FALSE]
    /\ lastOp' = "call"
    /\ UNCHANGED <<tree, module, last_marker, listener, loadTracked>>
    /\ UNCHANGED genVars

\* CoverageTestResult(coverage_injector=...): a new listener replaces the one in use
NewListener ==
    /\ ~InTest
    /\ listener # CoverageTestResult(covered_nodes)
    /\ listener' = CoverageTestResult(covered_nodes)
    /\ hist' = [hist EXCEPT !.fresh = hist.quiet, !.current = (module.p # 0)]
    /\ added' = {}
    /\ lastOp' = "new"
    /\ UNCHANGED <<tree, module, covered_nodes, last_marker, declared, ran,
                   loadTracked, sessionCov>>
    /\ UNCHANGED genVars

\* CoverageTestResult.startTest(t); the test runner runs one test at a time
StartTest(t) ==
    /\ listener.created
    /\ ~InTest
    /\ listener' = [listener EXCEPT !.covered_nodes = covered_nodes,
                                    !.running = {t}]
    /\ covered_nodes' = {}
    /\ added' = {}
    /\ hist' = [hist EXCEPT !.quiet = FALSE, !.interrupted = FALSE, !.lastTest = t]
    /\ lastOp' = "startTest"
    /\ UNCHANGED <<tree, module, last_marker, declared, ran, loadTracked, sessionCov>>
    /\ UNCHANGED genVars

\* CoverageTestResult.stopTest(t)
StopTest(t) ==
    /\ listener.created
    /\ t \in listener.running
    /\ listener' = [listener EXCEPT
                      !.test_covered_nodes =
                          (t :> Fingerprint(covered_nodes, listener.always_covered_nodes)) @@ @,
                      !.running = @ \ {t}]
    /\ covered_nodes' = MergeSnapshot(covered_nodes, listener.covered_nodes)
    /\ hist' = [hist EXCEPT !.quiet = FALSE]
    /\ lastOp' = "stopTest"
    /\ UNCHANGED <<tree, module, last_marker, declared, ran, loadTracked, sessionCov, added>>
    /\ UNCHANGED genVars

Next ==
    \/ \E p \in Prog : Parse(p)
    \/ Inject
    \/ \E f \in AllNodes : Call(f)
    \/ NewListener
    \/ \E t \in Tests : StartTest(t)
    \/ \E t \in Tests : StopTest(t)

Spec == Init /\ [][Next]_vars

\* a mutation operator replaces statement n of the annotated tree by newly built
\* nodes of the same shape: no node of the new subtree has a marker
Mutate(n) ==
    /\ ~InTest
    /\ n \in Nodes(Programs[tree.p])
    /\ Programs[tree.p].kind[n] \in get_statements_nodes
    /\ tree.mk[n] # NoMarker
    /\ tree' = [tree EXCEPT !.mk = [d \in Nodes(Programs[tree.p]) |->
                                      IF d \in {n} \cup children(Programs[tree.p], n)
                                      THEN NoMarker ELSE @[d]]]
    /\ added' = {}
    /\ lastOp' = "mutate"
    /\ UNCHANGED <<module, covered_nodes, last_marker, listener, declared, ran,
                   loadTracked, sessionCov, hist>>
    /\ UNCHANGED genVars

\* the driver of mutation trials: trees are parsed, injected, mutated and injected again
NextMutate ==
    \/ \E p \in Prog : Parse(p)
    \/ \E n \in AllNodes : Mutate(n)
    \/ Inject

SpecMutate == Init /\ [][NextMutate]_vars

-----------------------------------------------------------------------------
(* Properties of the coverage engine *)

ModuleTree == Programs[module.p]
MarkerCount(T, mk) == Cardinality({mk[n] : n \in Nodes(T)})

\* covered_nodes holds exactly what the session recorded: no test has cleared it
\* and no snapshot of another session was merged into it
Undisturbed == module.p # 0 /\ covered_nodes = sessionCov

\* the load-time covered set of the latest inject
Baseline == IF module.p = 0 THEN {} ELSE {module.mk[Root]} \cup loadTracked

\* the statement a node belongs to: the node itself if it is coverable, else the
\* nearest coverable ancestor
RECURSIVE Owner(_, _)
Owner(T, n) ==
    IF T.kind[n] \in get_coverable_nodes \/ n = Root THEN n ELSE Owner(T, Parent(T, n))

\* C1: annotating a tree of n unmarked nodes gives the markers 0..n-1, one per node,
\* in pre-order (parent first, children in field order), and leaves the counter at n;
\* a second annotation of the same tree changes no marker.
C1_AnnotatePreorder ==
    LET T == Programs[tree.p]
        N == Cardinality(Nodes(T))
    IN  tree.mk # Unmarked(T) =>
          /\ \A n \in Nodes(T) : tree.mk[n] = PreorderIndex(T, n) - 1
          /\ {tree.mk[n] : n \in Nodes(T)} = 0 .. (N - 1)
          /\ (lastOp = "inject" /\ hist.annots = 1) => last_marker = N

\* C1 witness: the tree whose node numbers are not in traversal order, annotated twice
C1_Witness == lastOp = "inject" /\ hist.annots = 2 /\ tree.p = 2 /\ tree.mk # Unmarked(P2)

\* C2: for a branch statement b and a plain statement s of b's main body, s is
\* covered exactly if s ran, and while s has not run no descendant of s is covered.
C2_NoDoubleCounting ==
    Undisturbed =>
      \A b \in Nodes(ModuleTree) : ModuleTree.kind[b] \in get_branch_nodes =>
        \A s \in Range(ModuleTree.body[b]) : ModuleTree.kind[s] \in get_statements_nodes =>
          /\ is_covered(s) <=> s \in ran
          /\ s \notin ran => \A d \in children(ModuleTree, s) : ~is_covered(d)

\* C3: a definition's tracking statement is the first statement of its body and records
\* exactly the definition's marker, and the definition is covered exactly if its body
\* has been entered.
C3_DefinitionCoveredIffEntered ==
    Undisturbed =>
      \A d \in Nodes(ModuleTree) : ModuleTree.kind[d] \in get_definitions_nodes =>
        /\ NewBody(ModuleTree, module.mk, d)[1] = Track({module.mk[d]})
        /\ is_covered(d) <=> d \in ran

\* C4: after an inject, get_result() is (|CoveredSet|, number of markers of the
\* injected tree), and the first does not exceed the second.
C4_ResultWithinTotal ==
    module.p # 0 =>
      /\ get_result[1] = Cardinality(covered_nodes)
      /\ get_result[2] = MarkerCount(ModuleTree, module.mk)
      /\ get_result[1] <= get_result[2]

\* C5 as stated: the fingerprint stored at stopTest is the markers added during the
\* test united with the load-time baseline of inject, however late after that inject
\* the listener was created.
C5_FingerprintLoadBaseline ==
    (lastOp = "stopTest" /\ ~hist.interrupted /\ hist.current) =>
      listener.test_covered_nodes[hist.lastTest] = added \cup Baseline

\* C5 amended: the fingerprint stored at stopTest is the markers added during the test
\* united with the content of CoveredSet when the listener was created; that is the
\* load-time baseline of inject for a listener created right after inject.
C5_FingerprintListenerBaseline ==
    (lastOp = "stopTest" /\ ~hist.interrupted) =>
      /\ listener.test_covered_nodes[hist.lastTest] = added \cup listener.always_covered_nodes
      /\ hist.fresh => listener.test_covered_nodes[hist.lastTest] = added \cup Baseline

\* C5 witness: a test of a listener created right after inject recorded markers
C5_Witness ==
    /\ lastOp = "stopTest" /\ ~hist.interrupted /\ hist.fresh
    /\ added # {} /\ ~(Baseline \subseteq added)

\* C6: with tests run one at a time, CoveredSet is empty right after startTest; right
\* after stopTest it is the pre-test snapshot united with the markers covered during
\* the test, which is the load-time set united with everything recorded since; no
\* marker of the snapshot is lost.
C6_SnapshotRestored ==
    /\ lastOp = "startTest" => covered_nodes = {}
    /\ lastOp = "stopTest" => listener.covered_nodes \subseteq covered_nodes
    /\ (lastOp = "stopTest" /\ ~hist.interrupted) =>
          covered_nodes = listener.covered_nodes \cup added
    /\ (lastOp = "stopTest" /\ hist.clean) => covered_nodes = sessionCov

\* C6 witness: a completed test that recorded markers on top of a non-empty snapshot
C6_Witness ==
    /\ lastOp = "stopTest" /\ hist.clean /\ module.p # 0
    /\ added # {} /\ ~(listener.covered_nodes \subseteq added)
    /\ ~(added \subseteq listener.covered_nodes)

\* C7 as stated: right after inject, CoveredSet is exactly the markers recorded by the
\* tracking statements that ran during the load.
C7_OnlyLoadTracked == lastOp = "inject" => covered_nodes = loadTracked

\* C7 amended: right after inject, CoveredSet is exactly the marker of the root node,
\* which inject adds itself, and the markers recorded by the tracking statements that
\* ran during the load, whatever the set held before.
C7_RootAndLoadTracked == lastOp = "inject" => covered_nodes = {module.mk[Root]} \cup loadTracked

\* C7 witness: a second inject whose load ran tracking statements
C7_Witness == lastOp = "inject" /\ hist.injects = 2 /\ loadTracked # {}

\* C10: a marker of a statement in a branch's body or else clause, or of a node below
\* such a statement, is recorded only if the statement the node belongs to has run.
C10_BranchRecordsOnlyCondition ==
    Undisturbed =>
      \A b \in Nodes(ModuleTree) : ModuleTree.kind[b] \in get_branch_nodes =>
        \A s \in Range(ModuleTree.body[b]) \cup Range(ModuleTree.orelse[b]) :
          \A x \in {s} \cup children(ModuleTree, s) :
            is_covered(x) => Owner(ModuleTree, x) \in ran

\* C12: after the annotation pass of an inject every node of the tree has a marker
\* and no two nodes of the tree have the same marker, whether the tree came from the
\* parser or had nodes marked by an earlier pass and new nodes without a marker.
C12_MarkersUnique ==
    lastOp = "inject" =>
      LET T == Programs[tree.p]
      IN  /\ \A n \in Nodes(T) : tree.mk[n] # NoMarker
          /\ \A n, m \in Nodes(T) : tree.mk[n] = tree.mk[m] => n = m

\* C11: inject leaves the shape of the tree it is given as it was: every statement
\* list of the tree is the list the parser built (no tracking statement is in it), a
\* node that had a marker keeps it, the instrumented tree is made of node objects
\* none of which is a node of the tree, and its nodes carry the markers of the tree.
C11_InjectKeepsShape ==
    [][lastOp' = "inject" =>
         LET T == Programs[tree.p]
         IN  /\ tree'.p = tree.p
             /\ tree'.body = tree.body /\ tree'.orelse = tree.orelse
             /\ \A n \in Nodes(T) :
                  /\ tree'.body[n] = T.body[n]
                  /\ tree'.orelse[n] = T.orelse[n]
                  /\ TrackingNode \notin Range(tree'.body[n]) \cup Range(tree'.orelse[n])
                  /\ tree.mk[n] # NoMarker => tree'.mk[n] = tree.mk[n]
                  /\ tree'.mk[n] # NoMarker
                  /\ module'.mk[n] = tree'.mk[n]
                  /\ module'.obj[n] \notin {TreeObj(m) : m \in Nodes(T)}]_vars

\* C11 witness: an inject of a tree with definitions and plain statements, so that
\* tracking statements were inserted into bodies and before statements of the copy
C11_Witness ==
    /\ lastOp = "inject" /\ module.p = 4
    /\ NewBody(ModuleTree, module.mk, 3)[1].t = "track"
    /\ Len(NewBody(ModuleTree, module.mk, 3)) > Len(tree.body[3])
    /\ tree.body[3] = P4.body[3]

\* C13: when inject ran between startTest(t) and stopTest(t), then in every state
\* from that inject on, also after the late stopTest(t) of the old listener, every
\* marker in CoveredSet was recorded since that inject started.
C13_InterruptedTestLeavesNoTrace ==
    (module.p # 0 /\ ~hist.clean) => covered_nodes \subseteq sessionCov

-----------------------------------------------------------------------------
(* The source generator run on one tree, and its text read back *)

Ops == {"Add", "Mult"}
E0 == {Name(i) : i \in Identifiers}
E1 == E0 \cup {BinOp(l, op, r) : l \in E0, op \in Ops, r \in E0}
E2 == E1 \cup {BinOp(l, op, r) : l \in E1, op \in Ops, r \in E1}

Values == E1 \cup {YieldFrom(e) : e \in E0}
TargetLists == {<<Name("a")>>, <<Name("a"), Name("b")>>}
NameLists == {<<alias("a")>>, <<alias("a"), alias("b")>>}
Handler == ExceptHandler(<<Pass>>)

TryStmts ==
    {Try(<<Pass>>, hs, oe, fb) :
        hs \in {<<>>, <<Handler>>, <<Handler, Handler>>},
        oe \in {<<>>, <<Expr(Name("a"))>>},
        fb \in {<<>>, <<Pass>>}}

\* a try statement has a handler or a finally clause, and an else clause only after a handler
WellFormed(s) ==
    s.kind = "Try" => /\ s.handlers # <<>> \/ s.finalbody # <<>>
                      /\ s.orelse # <<>> => s.handlers # <<>>

GenStmts ==
    {Expr(e) : e \in E2} \cup {Expr(YieldFrom(e)) : e \in E1}
    \cup {Assign(ts, v) : ts \in TargetLists, v \in Values}
    \cup {Import(ns) : ns \in NameLists}
    \cup {Pass}
    \cup {s \in TryStmts : WellFormed(s)}

GenTrees ==
    {Module(<<s>>) : s \in GenStmts}
    \cup {Module(<<s, Pass>>) : s \in {t \in GenStmts : t.kind # "Expr"}}

\* a node with the line number the parser recorded for it
At(node, lineno) == [lineno |-> lineno] @@ node

LineNos == 1 .. MaxLine

\* trees whose statements carry line numbers, in any order: a statement may come
\* later, at the same place or earlier in the original text than the text before it
LinedElse ==
    {<<>>}
    \cup {<<At(Pass, l)>> : l \in LineNos}
    \cup {<<At(If(At(Name("b"), l), <<At(Pass, l1)>>, <<>>), l)>> : l, l1 \in LineNos}

LinedStmts ==
    {At(Pass, l) : l \in LineNos}
    \cup {At(Expr(At(Name("a"), l)), l) : l \in LineNos}
    \cup {At(Try(<<At(Pass, l1)>>, <<>>, <<>>, <<At(Pass, l2)>>), l) : l, l1, l2 \in LineNos}
    \cup {At(If(At(Name("a"), l), <<At(Pass, l1)>>, oe), l) : l, l1 \in LineNos, oe \in LinedElse}

LinedTrees == {Module(<<s, At(Pass, l)>>) : s \in LinedStmts, l \in LineNos}

GenInit ==
    /\ tree = FreshTree(1)
    /\ module = NoModule
    /\ covered_nodes = {}
    /\ last_marker = NoMarker
    /\ listener = NoListener
    /\ declared = {}
    /\ ran = {}
    /\ loadTracked = {}
    /\ sessionCov = {}
    /\ added = {}
    /\ hist = [injects |-> 0, annots |-> 0, quiet |-> FALSE, fresh |-> FALSE,
               current |-> FALSE, interrupted |-> FALSE, clean |-> TRUE, lastTest |-> "t1"]
    /\ lastOp = "init"
    /\ gtree \in GenTrees \cup LinedTrees
    /\ generator = NewGenerator
    /\ source = <<>>
    /\ parsed = NoNode
    /\ genOp = "init"

\* to_source(gtree): the text is returned unless the generation aborted
ToSource ==
    /\ genOp = "init"
    /\ generator' = to_source(gtree)
    /\ source' = IF generator'.error THEN <<>> ELSE generator'.result
    /\ genOp' = IF generator'.error THEN "error" ELSE "to_source"
    /\ UNCHANGED <<gtree, parsed, covVars>>

\* the returned text is parsed (the grammar of the parser has no if statement)
ParseSource ==
    /\ genOp = "to_source"
    /\ ~HasKind(gtree, "If")
    /\ parsed' = ParseModule(source)
    /\ genOp' = "parse"
    /\ UNCHANGED <<gtree, generator, source, covVars>>

GenNext == ToSource \/ ParseSource

SpecGen == GenInit /\ [][GenNext]_vars

RECURSIVE Unwrapped(_)
\* the tree with every node that has no renderer replaced by its children
\* (the module at the root stays)
Unwrapped(node) ==
    CASE node.kind = "YieldFrom" -> Unwrapped(node.value)
      [] node.kind = "Module" -> Module([i \in DOMAIN node.body |-> Unwrapped(node.body[i])])
      [] node.kind = "Expr" -> [node EXCEPT !.value = Unwrapped(@)]
      [] node.kind = "Assign" -> [node EXCEPT !.value = Unwrapped(@)]
      [] node.kind = "BinOp" -> BinOp(Unwrapped(node.left), node.op, Unwrapped(node.right))
      [] OTHER -> node

\* every node below the root has a kind with a renderer
Supported(T) == \A k \in {"YieldFrom", "Tuple", "SyntaxError"} : ~HasKind(T, k)

\* the values the names stand for when two trees are compared
Env == [a |-> 2, b |-> 3]

RECURSIVE Eval(_)
Eval(e) ==
    CASE e.kind = "Name" -> Env[e.id]
      [] e.kind = "BinOp" -> IF e.op = "Add" THEN Eval(e.left) + Eval(e.right)
                             ELSE Eval(e.left) * Eval(e.right)

RECURSIVE Meaning(_)
\* the tree with every expression replaced by its value: two trees with the same
\* meaning have the same statements, clauses, targets and imported names, and
\* compute the same values
Meaning(node) ==
    LET Each(nodes) == [i \in DOMAIN nodes |-> Meaning(nodes[i])]
    IN  CASE node.kind \in {"Name", "BinOp"} -> [kind |-> "Value", value |-> Eval(node)]
          [] node.kind = "Module" -> Module(Each(node.body))
          [] node.kind = "Expr" -> Expr(Meaning(node.value))
          [] node.kind = "Pass" -> Pass
          [] node.kind = "Assign" -> Assign(node.targets, Meaning(node.value))
          [] node.kind = "ExceptHandler" -> ExceptHandler(Each(node.body))
          [] node.kind = "Try" -> Try(Each(node.body), Each(node.handlers), Each(node.orelse),
                                      Each(node.finalbody))
          [] OTHER -> node

\* C8: the text generated for a tree of supported node kinds parses, and the tree it
\* parses to has the meaning of the tree it was generated from.
C8_RoundTrip ==
    (genOp = "parse" /\ Supported(gtree)) =>
        parsed # SyntaxError /\ Meaning(parsed) = Meaning(gtree)

\* C9 as stated: a tree that contains a node without a renderer makes the generation
\* abort, and no text is returned.
C9_UnsupportedIsFatal ==
    (genOp # "init" /\ HasKind(gtree, "YieldFrom")) =>
        generator.error /\ genOp = "error" /\ source = <<>>

\* C9 amended: a node without a renderer is passed over and its children are rendered
\* in field order; the generation never aborts, and the text returned is the text of
\* the tree without that node.
C9_UnsupportedIsSkipped ==
    genOp # "init" =>
        /\ ~generator.error
        /\ genOp \in {"to_source", "parse"}
        /\ source = to_source(Unwrapped(gtree)).result

\* C9 witness: text was returned for a tree with a node that has no renderer
C9_Witness == genOp = "to_source" /\ HasKind(gtree, "YieldFrom") /\ source # <<>>

\* the lines of the text, blank lines included, each with its indentation depth and
\* its tokens
TextLines(src) ==
    LET raw == SplitOn(SelectSeq(src, LAMBDA x : x # ""), NL)
    IN  [i \in DOMAIN raw |->
            [level |-> LeadingIndents(raw[i]),
             content |-> SubSeq(raw[i], LeadingIndents(raw[i]) + 1, Len(raw[i]))]]

RECURSIVE Starts(_, _), ElseStarts(_, _)
\* the lines the statements of a list open, in the order of the text: the tokens of
\* the line, the line number of the statement the line starts (0 for a line that
\* starts no statement: else), and the indentation depth
Starts(stmts, depth) ==
    IF stmts = <<>> THEN <<>>
    ELSE LET s == Head(stmts)
             Line(toks) == [tok |-> toks, lineno |-> s.lineno, depth |-> depth]
         IN  (CASE s.kind = "Pass" -> <<Line(<<"pass">>)>>
                [] s.kind = "Expr" -> <<Line(<<s.value.id>>)>>
                [] s.kind = "Try" ->
                      <<Line(<<"try:">>)>> \o Starts(s.body, depth + 1)
                      \o <<Line(<<"finally:">>)>> \o Starts(s.finalbody, depth + 1)
                [] s.kind = "If" ->
                      <<Line(<<"if ", s.test.id, ":">>)>> \o Starts(s.body, depth + 1)
                      \o ElseStarts(s.orelse, depth))
             \o Starts(Tail(stmts), depth)

\* the lines of an else clause: an if statement that is the whole clause starts with elif
ElseStarts(else_, depth) ==
    IF else_ = <<>> THEN <<>>
    ELSE IF Len(else_) = 1 /\ else_[1].kind = "If"
    THEN <<[tok |-> <<"elif ", else_[1].test.id, ":">>, lineno |-> else_[1].lineno,
            depth |-> depth]>>
         \o Starts(else_[1].body, depth + 1) \o ElseStarts(else_[1].orelse, depth)
    ELSE <<[tok |-> <<"else:">>, lineno |-> 0, depth |-> depth]>> \o Starts(else_, depth + 1)

RECURSIVE Layout(_, _)
\* the lines of the text when emitted lines have been written and the lines of starts
\* follow: a line whose number is greater than emitted lands on that line, after blank
\* lines at its own depth; any other line follows the text directly
Layout(starts, emitted) ==
    IF starts = <<>> THEN <<>>
    ELSE LET st == Head(starts)
             line == IF st.lineno > emitted THEN st.lineno ELSE emitted + 1
         IN  [i \in 1 .. (line - emitted - 1) |-> [level |-> st.depth, content |-> <<>>]]
             \o <<[level |-> st.depth, content |-> st.tok]>>
             \o Layout(Tail(starts), line)

Lined(T) == T.kind = "Module" /\ \A i \in DOMAIN T.body : "lineno" \in DOMAIN T.body[i]

\* the number of lines emitted once the first i statements of the module are written
EmittedAfter(T, i) ==
    LET g == VisitAll(NewGenerator, SubSeq(T.body, 1, i))
    IN  IF g.result = <<>> THEN 0 ELSE LineCount(g.result)

\* C14: a statement that carries line number L and is started when fewer than L lines
\* are emitted has its first token on line L of the text, after blank lines at the
\* current indentation; a statement whose L is not greater than the lines emitted
\* starts on the next line and nothing else is added or removed; the number of
\* emitted lines never decreases from one statement to the next.
C14_LineCatchUp ==
    (genOp # "init" /\ Lined(gtree)) =>
        /\ TextLines(source) = Layout(Starts(gtree.body, 0), 0)
        /\ \A i \in DOMAIN gtree.body : EmittedAfter(gtree, i - 1) <= EmittedAfter(gtree, i)
        /\ EmittedAfter(gtree, Len(gtree.body)) = Len(TextLines(source))

=============================================================================
